---- MODULE Spec2Model ----
(***************************************************************************)
(* Model of the field element type generated by impl_sec1_field_element!   *)
(* (p384/src/arithmetic/macros.rs): the codec (from_uint, from_*_bytes,    *)
(* from_*_slice), the constant-time ordering, Field::random and the        *)
(* safegcd inversion `invert`.                                             *)
(*                                                                         *)
(* The macro is parameterised by the integer type ($uint, of BIT_SIZE = W  *)
(* bits) and the modulus ($mod = p).  The model instantiates it over small *)
(* widths and moduli; an integer of W bits (LIMBS words) or of LIMBS + 1   *)
(* words is represented by the unsigned value of its little-endian limb    *)
(* array, reduced to its width wherever the code's arithmetic wraps.       *)
(*                                                                         *)
(* The limb engine ($msat, $divstep, $divstep_precomp, $to_mont,           *)
(* $from_mont, $mul, $neg) is generated code that lives outside the macro  *)
(* file; it is modelled from its contract (Bernstein-Yang divstep).        *)
(***************************************************************************)
EXTENDS Integers, Sequences, FiniteSets, TLC

VARIABLES W, p, pc, inv, inv2, rnd, dec, cmp

vars == <<W, p, pc, inv, inv2, rnd, dec, cmp>>

(***************************************************************************)
(* Parameters of the instantiation and bounds of the model.                *)
(***************************************************************************)

\* Limb::BIT_SIZE: the width of one machine word.
LimbBits == 8

\* The instantiations explored: <<BIT_SIZE, modulus>>, with a modulus that
\* fills the width (as the P-384 prime does) and a short one.  The formula
\* of ITERATIONS is the safegcd bound for widths of at least 46 bits; for
\* these moduli every input converges within ITERATIONS all the same.
Configs == {<<8, 13>>, <<8, 251>>, <<16, 13>>, <<16, 251>>}

\* Instantiations used when two inversions run side by side.
PairConfigs == {<<8, 13>>, <<16, 13>>}

\* Byte values the inputs are drawn from.
ByteSamples == {0, 1, 12, 13, 14, 126, 127, 128, 250, 251, 255}

\* Byte values slices are drawn from.
SliceBytes == {0, 13, 127, 251}

\* Longest slice handed to from_be_slice / from_le_slice.
MaxSliceLen == 3

\* from_uint is tried on every integer up to this one, and on the largest.
MaxUint == 300

\* The most buffers one call of random draws in the model.
MaxDraws == 3

(***************************************************************************)
(* Constants of invert and the integer representations.                    *)
(***************************************************************************)

\* nlimbs!(BIT_SIZE): the number of words of $uint.
LIMBS == W \div LimbBits

\* A plausible slip: the bound computed from the limb count, not the bits.
ITERATIONS_FromLimbs == (49 * LIMBS + 57) \div 17

\* The number of divstep calls of one inversion (integer division).
ITERATIONS == (49 * W + 57) \div 17

\* Bits of XLimbs = [Word; LIMBS + 1].
XBits == LimbBits * (LIMBS + 1)

WordMod == 2 ^ LimbBits

XMod == 2 ^ XBits

UintMod == 2 ^ (LimbBits * LIMBS)

\* d is an unsigned Word that the engine reads as a signed one.
WordSigned(w) == IF w >= WordMod \div 2 THEN w - WordMod ELSE w

\* The signed value of an extended vector (two's complement).
TwosEval(a) == IF a >= XMod \div 2 THEN a - XMod ELSE a

\* The extended vector holding the signed integer z.
TwosEnc(z) == z % XMod

\* The top word of an extended vector: f[f.len() - 1].
TopLimb(a) == a \div (2 ^ (LimbBits * LIMBS))

(***************************************************************************)
(* crypto-bigint / subtle primitives used by the macro.                    *)
(***************************************************************************)

\* Uint::ct_lt: the borrow out of the W-bit subtraction a - b.
CtLt(a, b) == (a - b) < 0

\* Uint::ct_gt.
CtGt(a, b) == CtLt(b, a)

\* Uint::ct_eq.
CtEq(a, b) == a = b

\* Uint::conditional_select(a, b, choice): a when choice is 0, b when 1.
conditional_select(a, b, choice) == IF choice = 1 THEN b ELSE a

RECURSIVE from_be_byte_array(_)
\* Uint::from_be_byte_array: the first byte is the most significant.
from_be_byte_array(b) ==
    IF b = <<>> THEN 0
    ELSE from_be_byte_array(SubSeq(b, 1, Len(b) - 1)) * 256 + b[Len(b)]

RECURSIVE from_le_byte_array(_)
\* Uint::from_le_byte_array: the first byte is the least significant.
from_le_byte_array(b) ==
    IF b = <<>> THEN 0
    ELSE b[1] + 256 * from_le_byte_array(Tail(b))

\* The length of $bytes, the fixed-width encoding.
BytesLen == (LimbBits * LIMBS) \div 8

(***************************************************************************)
(* The limb arithmetic engine, from its contract.                          *)
(***************************************************************************)

\* R^-1 mod p for the Montgomery radix R = 2^(LimbBits * LIMBS).
RInv == CHOOSE k \in 0 .. (p - 1) : (k * (UintMod % p)) % p = 1

\* $to_mont: a * R mod p.
to_mont(a) == (a * (UintMod % p)) % p

\* $from_mont: a * R^-1 mod p.
from_mont(a) == ((a % p) * RInv) % p

\* $mul: Montgomery multiplication, a * b * R^-1 mod p.
mul(a, b) == from_mont((a * b) % p)

\* $neg: modular negation.
neg(a) == (p - a) % p

\* $add / $sub on Montgomery representations.
add(a, b) == (a + b) % p

sub(a, b) == (a - b) % p

\* $msat: the modulus as an extended (LIMBS + 1 word) vector.
msat == TwosEnc(p)

RECURSIVE ModExp(_, _, _)
ModExp(b, e, m) == IF e = 0 THEN 1 % m ELSE (b * ModExp(b, e - 1, m)) % m

\* $divstep_precomp: 2^-ITERATIONS mod p, in Montgomery form; it undoes the
\* doubling of v that every divstep performs.
divstep_precomp == to_mont(ModExp((p + 1) \div 2, ITERATIONS, p))

\* $divstep: one Bernstein-Yang divstep on (d, f, g) in two's complement,
\* with the matching update of (v, r) modulo p.
divstep(s) ==
    LET dv   == WordSigned(s.d)
        fv   == TwosEval(s.f)
        gv   == TwosEval(s.g)
        g0   == gv % 2
        swap == dv > 0 /\ g0 = 1
    IN  [d |-> (IF swap THEN 1 - dv ELSE 1 + dv) % WordMod,
         f |-> IF swap THEN s.g ELSE s.f,
         g |-> IF swap THEN TwosEnc((gv - fv) \div 2)
                       ELSE TwosEnc((gv + g0 * fv) \div 2),
         v |-> IF swap THEN add(s.r, s.r) ELSE add(s.v, s.v),
         r |-> IF swap THEN sub(s.r, s.v)
                       ELSE IF g0 = 1 THEN add(s.r, s.v) ELSE s.r]

(***************************************************************************)
(* Field element and codec.  A field element is its Montgomery             *)
(* representation, the Uint it wraps.                                      *)
(***************************************************************************)

\* Self::ZERO.
ZERO == 0

\* Self::ONE: the macro's $one, the Montgomery form of 1.
ONE == to_mont(1)

FieldElements == {to_mont(x) : x \in 0 .. (p - 1)}

\* from_uint_unchecked: into Montgomery form, with no range check.
from_uint_unchecked(w) == to_mont(w)

\* A plausible slip: the range check accepting the modulus itself.
from_uint_AcceptsModulus(uint) ==
    [value |-> from_uint_unchecked(uint), is_some |-> ~CtLt(p, uint)]

\* from_uint: CtOption::new(from_uint_unchecked(uint), uint.ct_lt(&$mod)).
from_uint(uint) ==
    [value |-> from_uint_unchecked(uint), is_some |-> CtLt(uint, p)]

from_be_bytes(repr) == from_uint(from_be_byte_array(repr))

from_le_bytes(repr) == from_uint(from_le_byte_array(repr))

\* ::elliptic_curve::Error.
Err == [ok |-> FALSE, value |-> 0]

\* from_be_slice: try_from(slice) fails on a wrong length; a CtOption that
\* is none becomes the error.
from_be_slice(slice) ==
    IF Len(slice) # BytesLen THEN Err
    ELSE LET o == from_be_bytes(slice)
         IN  IF o.is_some THEN [ok |-> TRUE, value |-> o.value] ELSE Err

from_le_slice(slice) ==
    IF Len(slice) # BytesLen THEN Err
    ELSE LET o == from_le_bytes(slice)
         IN  IF o.is_some THEN [ok |-> TRUE, value |-> o.value] ELSE Err

\* to_canonical: out of the Montgomery domain.
to_canonical(a) == from_mont(a)

\* is_zero: self.ct_eq(&Self::ZERO).
is_zero(a) == CtEq(a, ZERO)

\* ConstantTimeGreater::ct_gt: self.0.ct_gt(&other.0).
ct_gt(a, b) == CtGt(a, b)

\* ConstantTimeLess::ct_lt: self.0.ct_lt(&other.0).
ct_lt(a, b) == CtLt(a, b)

(***************************************************************************)
(* invert, as a machine over the record of its locals.  calls, lastIn,     *)
(* prevOut, lastOut and ops are history: the number of divstep calls, the  *)
(* inputs of the latest call, the outputs of the call before it and of the *)
(* latest call, and the engine operations executed so far.                 *)
(***************************************************************************)

NoState == [d |-> 0, f |-> 0, g |-> 0, v |-> 0, r |-> 0]

NoRun ==
    [pc |-> "none", self |-> 0, d |-> 0, f |-> 0, g |-> 0, v |-> 0, r |-> 0,
     precomp |-> 0, out1 |-> 0, out2 |-> 0, out3 |-> 0, out4 |-> 0,
     out5 |-> 0, i |-> 0, v_opp |-> 0, s |-> 0, vsel |-> 0, ret |-> 0,
     valid |-> FALSE, calls |-> 0, lastIn |-> NoState, prevOut |-> NoState,
     lastOut |-> NoState, ops |-> <<>>]

\* (d, f, g, v, r) and (out1, .., out5), the two buffer sets.
Cur(st) == [d |-> st.d, f |-> st.f, g |-> st.g, v |-> st.v, r |-> st.r]

Out(st) ==
    [d |-> st.out1, f |-> st.out2, g |-> st.out3, v |-> st.out4,
     r |-> st.out5]

\* invert up to the loop: the locals after `let mut i: usize = 0`.
InvertStart(self) ==
    [NoRun EXCEPT !.pc = "loop", !.self = self, !.d = 1, !.f = msat,
                  !.g = from_mont(self), !.r = ONE, !.v = 0,
                  !.precomp = divstep_precomp,
                  !.ops = <<"msat", "from_montgomery", "divstep_precomp">>]

\* A plausible slip: a loop that stops as soon as g has reached zero.
LoopCond_UntilZero(st) ==
    st.i < ITERATIONS - (ITERATIONS % 2) /\ st.g # 0

\* A plausible slip: the paired loop bounded by ITERATIONS itself.
LoopCond_NoRounding(st) == st.i < ITERATIONS

\* while i < ITERATIONS - (ITERATIONS % 2)
LoopCond(st) == st.i < ITERATIONS - (ITERATIONS % 2)

\* The history kept at a divstep call with inputs `in` and outputs `o`.
Called(st, in, o) ==
    [st EXCEPT !.calls = @ + 1, !.prevOut = st.lastOut, !.lastIn = in,
               !.lastOut = o, !.ops = Append(@, "divstep")]

\* First call of a pair: (d, f, g, v, r) -> (out1, .., out5).
DivstepA(st) ==
    LET o == divstep(Cur(st))
    IN  [Called(st, Cur(st), o) EXCEPT
            !.out1 = o.d, !.out2 = o.f, !.out3 = o.g, !.out4 = o.v,
            !.out5 = o.r, !.pc = "loopB"]

\* A plausible slip: the second call reading the buffers it writes.
DivstepB_SameBuffers(st) ==
    LET o == divstep(Cur(st))
    IN  [Called(st, Cur(st), o) EXCEPT
            !.d = o.d, !.f = o.f, !.g = o.g, !.v = o.v, !.r = o.r,
            !.i = @ + 2, !.pc = "loop"]

\* Second call of a pair: (out1, .., out5) -> (d, f, g, v, r); i += 2.
DivstepB(st) ==
    LET o == divstep(Out(st))
    IN  [Called(st, Out(st), o) EXCEPT
            !.d = o.d, !.f = o.f, !.g = o.g, !.v = o.v, !.r = o.r,
            !.i = @ + 2, !.pc = "loop"]

\* A plausible slip: the unpaired step leaving v in the out buffer.
OddStep_NoCopy(st) ==
    LET o == divstep(Cur(st))
    IN  [Called(st, Cur(st), o) EXCEPT
            !.out1 = o.d, !.out2 = o.f, !.out3 = o.g, !.out4 = o.v,
            !.out5 = o.r, !.f = o.f, !.pc = "post"]

\* The unpaired final step: one call into the out buffers, then
\* v = out4; f = out2.
OddStep(st) ==
    LET o == divstep(Cur(st))
    IN  [Called(st, Cur(st), o) EXCEPT
            !.out1 = o.d, !.out2 = o.f, !.out3 = o.g, !.out4 = o.v,
            !.out5 = o.r, !.v = o.v, !.f = o.f, !.pc = "post"]

\* A plausible slip: the sign read from the top word of the LIMBS-word part.
SignBit_LowWords(f) ==
    (((f \div (2 ^ (LimbBits * (LIMBS - 1)))) % WordMod)
        \div (2 ^ (LimbBits - 1))) % 2

\* (f[f.len() - 1] >> Limb::BIT_SIZE - 1) & 1
SignBit(f) == (TopLimb(f) \div (2 ^ (LimbBits - 1))) % 2

\* A plausible slip: the negation of the zero test left out.
InvertValid_NotNegated(self) == is_zero(self)

\* !self.is_zero()
InvertValid(self) == ~is_zero(self)

\* From `let mut v_opp` to the end: negate, select on the sign of f,
\* multiply by precomp, attach the validity flag.
Finish(st) ==
    LET v_opp == neg(st.v)
        s     == SignBit(st.f)
        vsel  == conditional_select(st.v, v_opp, s)
    IN  [st EXCEPT !.v_opp = v_opp, !.s = s, !.vsel = vsel,
                   !.ret = mul(vsel, st.precomp),
                   !.valid = InvertValid(st.self), !.pc = "done",
                   !.ops = @ \o <<"neg", "conditional_select", "mul",
                                  "is_zero">>]

\* The next position of a run of invert.
InvertStep(st) ==
    CASE st.pc = "loop" /\ LoopCond(st) -> DivstepA(st)
      [] st.pc = "loopB" -> DivstepB(st)
      [] st.pc = "loop" /\ ~LoopCond(st) /\ ITERATIONS % 2 # 0 -> OddStep(st)
      [] st.pc = "loop" /\ ~LoopCond(st) /\ ITERATIONS % 2 = 0 -> Finish(st)
      [] st.pc = "post" -> Finish(st)
      [] OTHER -> st

(***************************************************************************)
(* Field::random, as a machine over the record of its locals.  draws and   *)
(* decodes count the fill_bytes calls and the from_be_bytes calls.         *)
(***************************************************************************)

NoRnd == [pc |-> "none", bytes |-> <<>>, draws |-> 0, decodes |-> 0, ret |-> 0]

\* let mut bytes = <$bytes>::default();
RandomStart ==
    [NoRnd EXCEPT !.pc = "fill", !.bytes = [k \in 1 .. BytesLen |-> 0]]

\* rng.fill_bytes(&mut bytes)
RandomFillStep(rs, b) ==
    [rs EXCEPT !.bytes = b, !.draws = @ + 1, !.pc = "decode"]

\* A plausible slip: returning the decoded element whatever its flag.
RandomDecodeStep_NoCheck(rs) ==
    [rs EXCEPT !.decodes = @ + 1, !.ret = from_be_bytes(rs.bytes).value,
               !.pc = "done"]

\* if let Some(fe) = Self::from_be_bytes(bytes).into() { return fe; }
RandomDecodeStep(rs) ==
    LET o == from_be_bytes(rs.bytes)
    IN  IF o.is_some
        THEN [rs EXCEPT !.decodes = @ + 1, !.ret = o.value, !.pc = "done"]
        ELSE [rs EXCEPT !.decodes = @ + 1, !.pc = "fill"]

(***************************************************************************)
(* Inputs.                                                                 *)
(***************************************************************************)

ByteArrays == [1 .. BytesLen -> ByteSamples]

Slices == UNION {[1 .. n -> SliceBytes] : n \in 0 .. MaxSliceLen}

UintInputs ==
    (0 .. (IF MaxUint < UintMod THEN MaxUint ELSE UintMod - 1)) \cup {UintMod - 1}

\* Operands of the ordering: the elements whose canonical value is small
\* or just below the modulus.
MaxCmp == 12

CmpElements == {to_mont(x) : x \in {y \in 0 .. (p - 1) : y <= MaxCmp \/ y >= p - 2}}

NoDec == [op |-> "none", bytes |-> <<>>, uint |-> 0, value |-> 0, valid |-> FALSE]

NoCmp == [op |-> "none", a |-> 0, b |-> 0, res |-> FALSE]

(***************************************************************************)
(* Actions: one behaviour is one call on a freshly instantiated type.      *)
(***************************************************************************)

Init ==
    /\ \E c \in Configs : W = c[1] /\ p = c[2]
    /\ pc = "idle"
    /\ inv = NoRun
    /\ inv2 = NoRun
    /\ rnd = NoRnd
    /\ dec = NoDec
    /\ cmp = NoCmp

InitPair ==
    /\ \E c \in PairConfigs : W = c[1] /\ p = c[2]
    /\ pc = "idle"
    /\ inv = NoRun
    /\ inv2 = NoRun
    /\ rnd = NoRnd
    /\ dec = NoDec
    /\ cmp = NoCmp

FromUintOp(u) ==
    /\ pc = "idle"
    /\ LET o == from_uint(u)
       IN  dec' = [op |-> "from_uint", bytes |-> <<>>, uint |-> u,
                   value |-> o.value, valid |-> o.is_some]
    /\ pc' = "done"
    /\ UNCHANGED <<W, p, inv, inv2, rnd, cmp>>

FromBeBytesOp(b) ==
    /\ pc = "idle"
    /\ LET o == from_be_bytes(b)
       IN  dec' = [op |-> "from_be_bytes", bytes |-> b, uint |-> 0,
                   value |-> o.value, valid |-> o.is_some]
    /\ pc' = "done"
    /\ UNCHANGED <<W, p, inv, inv2, rnd, cmp>>

FromLeBytesOp(b) ==
    /\ pc = "idle"
    /\ LET o == from_le_bytes(b)
       IN  dec' = [op |-> "from_le_bytes", bytes |-> b, uint |-> 0,
                   value |-> o.value, valid |-> o.is_some]
    /\ pc' = "done"
    /\ UNCHANGED <<W, p, inv, inv2, rnd, cmp>>

FromBeSliceOp(sl) ==
    /\ pc = "idle"
    /\ LET o == from_be_slice(sl)
       IN  dec' = [op |-> "from_be_slice", bytes |-> sl, uint |-> 0,
                   value |-> o.value, valid |-> o.ok]
    /\ pc' = "done"
    /\ UNCHANGED <<W, p, inv, inv2, rnd, cmp>>

FromLeSliceOp(sl) ==
    /\ pc = "idle"
    /\ LET o == from_le_slice(sl)
       IN  dec' = [op |-> "from_le_slice", bytes |-> sl, uint |-> 0,
                   value |-> o.value, valid |-> o.ok]
    /\ pc' = "done"
    /\ UNCHANGED <<W, p, inv, inv2, rnd, cmp>>

CtGtOp(a, b) ==
    /\ pc = "idle"
    /\ cmp' = [op |-> "ct_gt", a |-> a, b |-> b, res |-> ct_gt(a, b)]
    /\ pc' = "done"
    /\ UNCHANGED <<W, p, inv, inv2, rnd, dec>>

CtLtOp(a, b) ==
    /\ pc = "idle"
    /\ cmp' = [op |-> "ct_lt", a |-> a, b |-> b, res |-> ct_lt(a, b)]
    /\ pc' = "done"
    /\ UNCHANGED <<W, p, inv, inv2, rnd, dec>>

InvertCall(self) ==
    /\ pc = "idle"
    /\ inv' = InvertStart(self)
    /\ pc' = "invert"
    /\ UNCHANGED <<W, p, inv2, rnd, dec, cmp>>

InvertDivstepA ==
    /\ pc = "invert"
    /\ inv.pc = "loop"
    /\ LoopCond(inv)
    /\ inv' = DivstepA(inv)
    /\ UNCHANGED <<W, p, pc, inv2, rnd, dec, cmp>>

InvertDivstepB ==
    /\ pc = "invert"
    /\ inv.pc = "loopB"
    /\ inv' = DivstepB(inv)
    /\ UNCHANGED <<W, p, pc, inv2, rnd, dec, cmp>>

InvertOddStep ==
    /\ pc = "invert"
    /\ inv.pc = "loop"
    /\ ~LoopCond(inv)
    /\ ITERATIONS % 2 # 0
    /\ inv' = OddStep(inv)
    /\ UNCHANGED <<W, p, pc, inv2, rnd, dec, cmp>>

InvertFinish ==
    /\ pc = "invert"
    /\ \/ inv.pc = "post"
       \/ inv.pc = "loop" /\ ~LoopCond(inv) /\ ITERATIONS % 2 = 0
    /\ inv' = Finish(inv)
    /\ pc' = "done"
    /\ UNCHANGED <<W, p, inv2, rnd, dec, cmp>>

RandomCall ==
    /\ pc = "idle"
    /\ rnd' = RandomStart
    /\ pc' = "random"
    /\ UNCHANGED <<W, p, inv, inv2, dec, cmp>>

RandomFill(b) ==
    /\ pc = "random"
    /\ rnd.pc = "fill"
    /\ rnd.draws < MaxDraws
    /\ rnd' = RandomFillStep(rnd, b)
    /\ UNCHANGED <<W, p, pc, inv, inv2, dec, cmp>>

RandomDecode ==
    /\ pc = "random"
    /\ rnd.pc = "decode"
    /\ rnd' = RandomDecodeStep(rnd)
    /\ pc' = IF rnd'.pc = "done" THEN "done" ELSE "random"
    /\ UNCHANGED <<W, p, inv, inv2, dec, cmp>>

\* Two inversions started side by side.
PairCall(a, b) ==
    /\ pc = "idle"
    /\ inv' = InvertStart(a)
    /\ inv2' = InvertStart(b)
    /\ pc' = "pair"
    /\ UNCHANGED <<W, p, rnd, dec, cmp>>

\* Each of the two runs takes its next step, if it has one.
PairStep ==
    /\ pc = "pair"
    /\ inv.pc # "done" \/ inv2.pc # "done"
    /\ inv' = InvertStep(inv)
    /\ inv2' = InvertStep(inv2)
    /\ UNCHANGED <<W, p, pc, rnd, dec, cmp>>

Next ==
    \/ pc = "idle" /\ \E u \in UintInputs : FromUintOp(u)
    \/ pc = "idle" /\ \E b \in ByteArrays : FromBeBytesOp(b)
    \/ pc = "idle" /\ \E b \in ByteArrays : FromLeBytesOp(b)
    \/ pc = "idle" /\ \E sl \in Slices : FromBeSliceOp(sl)
    \/ pc = "idle" /\ \E sl \in Slices : FromLeSliceOp(sl)
    \/ pc = "idle" /\ \E a, b \in CmpElements : CtGtOp(a, b)
    \/ pc = "idle" /\ \E a, b \in CmpElements : CtLtOp(a, b)
    \/ pc = "idle" /\ \E x \in FieldElements : InvertCall(x)
    \/ InvertDivstepA
    \/ InvertDivstepB
    \/ InvertOddStep
    \/ InvertFinish
    \/ RandomCall
    \/ pc = "random" /\ \E b \in ByteArrays : RandomFill(b)
    \/ RandomDecode

Spec == Init /\ [][Next]_vars

NextPair ==
    \/ pc = "idle" /\ \E a, b \in FieldElements : PairCall(a, b)
    \/ PairStep

SpecPair == InitPair /\ [][NextPair]_vars

(***************************************************************************)
(* Properties.                                                             *)
(***************************************************************************)

\* The engine operations of one complete inversion, in order.
FullOps ==
    <<"msat", "from_montgomery", "divstep_precomp">>
        \o [k \in 1 .. ITERATIONS |-> "divstep"]
        \o <<"neg", "conditional_select", "mul", "is_zero">>

RECURSIVE WeightedSum(_, _, _)
\* The integer a byte string denotes, big-endian (be) or little-endian,
\* summed over the bytes k .. Len(b).
WeightedSum(b, k, be) ==
    IF k > Len(b) THEN 0
    ELSE b[k] * 256 ^ (IF be THEN Len(b) - k ELSE k - 1)
            + WeightedSum(b, k + 1, be)

RECURSIVE Iterate(_, _)
\* S(k): divstep applied k times to s.  Each step is evaluated (its d
\* is a word) before the next is taken, which keeps the evaluation shallow.
Iterate(k, s) ==
    IF k = 0 THEN s
    ELSE LET t == divstep(s)
         IN  IF t.d \in 0 .. (WordMod - 1) THEN Iterate(k - 1, t) ELSE s

\* S0 of an inversion of self.
S0(self) == [d |-> 1, f |-> msat, g |-> from_mont(self), v |-> 0, r |-> ONE]

\* C1: for every nonzero x < p, invert(x) is flagged valid and its value y
\* satisfies x * y mod p = 1, i.e. x * invert(x) is ONE.
C1_InverseCorrect ==
    (inv.pc = "done" /\ to_canonical(inv.self) # 0) =>
        /\ inv.valid
        /\ (to_canonical(inv.self) * to_canonical(inv.ret)) % p = 1
        /\ mul(inv.self, inv.ret) = ONE

\* invert(5) = 8 modulo 13.
C1_Witness ==
    /\ inv.pc = "done"
    /\ p = 13
    /\ to_canonical(inv.self) = 5
    /\ to_canonical(inv.ret) = 8
    /\ inv.valid

\* C2: the validity flag of invert is the negation of the zero test of the
\* input, so invert(0) is invalid, and inverting zero runs the same full
\* sequence of divsteps and the final multiplication.
C2_ZeroInvalid ==
    inv.pc = "done" =>
        /\ inv.valid <=> (inv.self # 0)
        /\ inv.valid <=> (to_canonical(inv.self) # 0)
        /\ inv.self = 0 =>
              /\ ~inv.valid
              /\ inv.calls = ITERATIONS
              /\ inv.ops = FullOps

C2_Witness ==
    /\ inv.pc = "done"
    /\ inv.self = 0
    /\ ~inv.valid
    /\ inv.calls = ITERATIONS

\* C3 (as claimed): one call of invert performs ceil((49 W + 57) / 17)
\* divstep invocations.
C3_CeilingCount ==
    inv.pc = "done" => inv.calls = (49 * W + 57 + 16) \div 17

\* C3 (amended): one call of invert performs floor((49 W + 57) / 17)
\* divstep invocations: the paired iterations plus the unpaired final step.
C3_FloorCount ==
    inv.pc = "done" =>
        /\ inv.calls = (49 * W + 57) \div 17
        /\ inv.calls = inv.i + (IF ((49 * W + 57) \div 17) % 2 = 1 THEN 1 ELSE 0)

\* An inversion with an odd count: 49 calls for W = 16, the last unpaired.
C3_Witness ==
    /\ inv.pc = "done"
    /\ W = 16
    /\ inv.calls = 49
    /\ inv.i = 48

\* C4: from_uint, from_be_bytes and from_le_bytes are flagged valid iff the
\* decoded integer is strictly below p; from_be_slice and from_le_slice
\* fail on a wrong length and on an integer >= p.
C4_RangeCheck ==
    /\ dec.op = "from_uint" => (dec.valid <=> dec.uint < p)
    /\ dec.op = "from_be_bytes" =>
          (dec.valid <=> WeightedSum(dec.bytes, 1, TRUE) < p)
    /\ dec.op = "from_le_bytes" =>
          (dec.valid <=> WeightedSum(dec.bytes, 1, FALSE) < p)
    /\ dec.op = "from_be_slice" =>
          (dec.valid <=> (/\ Len(dec.bytes) * 8 = W
                          /\ WeightedSum(dec.bytes, 1, TRUE) < p))
    /\ dec.op = "from_le_slice" =>
          (dec.valid <=> (/\ Len(dec.bytes) * 8 = W
                          /\ WeightedSum(dec.bytes, 1, FALSE) < p))

\* The modulus itself, decoded and rejected.
C4_Witness ==
    /\ dec.op = "from_be_bytes"
    /\ WeightedSum(dec.bytes, 1, TRUE) = p
    /\ ~dec.valid

\* C5: ct_gt and ct_lt order field elements by their canonical values.
C5_CanonicalOrder ==
    /\ cmp.op = "ct_gt" =>
          (cmp.res <=> to_canonical(cmp.a) > to_canonical(cmp.b))
    /\ cmp.op = "ct_lt" =>
          (cmp.res <=> to_canonical(cmp.a) < to_canonical(cmp.b))

\* C6: two inversions run side by side execute the same engine operations
\* in the same order and finish after the same number of steps.
C6_SameSteps ==
    pc = "pair" =>
        /\ inv.pc = inv2.pc
        /\ inv.ops = inv2.ops
        /\ inv.calls = inv2.calls
        /\ inv.pc = "done" => inv.ops = FullOps

\* Both runs finished, one of them inverting zero.
C6_Witness ==
    /\ pc = "pair"
    /\ inv.pc = "done"
    /\ inv2.pc = "done"
    /\ inv.self = 0
    /\ inv2.self # 0
    /\ inv.ops = inv2.ops

\* C7: random returns only the decode of the latest buffer, which is below
\* p, and every decode is of a freshly drawn buffer.
C7_RejectionSampling ==
    /\ rnd.pc = "done" =>
          /\ WeightedSum(rnd.bytes, 1, TRUE) < p
          /\ to_canonical(rnd.ret) = WeightedSum(rnd.bytes, 1, TRUE)
          /\ rnd.ret = to_mont(WeightedSum(rnd.bytes, 1, TRUE))
          /\ rnd.draws = rnd.decodes
    /\ rnd.pc = "decode" => rnd.draws = rnd.decodes + 1
    /\ rnd.pc = "fill" => rnd.draws = rnd.decodes

\* A buffer was rejected, and the next one accepted.
C7_Witness ==
    /\ rnd.pc = "done"
    /\ rnd.draws = 2
    /\ rnd.decodes = 2

\* C8: every divstep call takes the outputs of the call before it (the
\* first takes S0), and the f and v read after the loop are those of
\* S(ITERATIONS).
C8_PlainIteration ==
    /\ inv.calls = 1 => inv.lastIn = S0(inv.self)
    /\ inv.calls >= 2 => inv.lastIn = inv.prevOut
    /\ inv.pc \in {"post", "done"} =>
          /\ inv.calls = ITERATIONS
          /\ inv.f = Iterate(ITERATIONS, S0(inv.self)).f
          /\ inv.v = Iterate(ITERATIONS, S0(inv.self)).v

\* The unpaired final step has run, on a nonzero input.
C8_Witness ==
    /\ inv.pc = "post"
    /\ ITERATIONS % 2 = 1
    /\ inv.self # 0
    /\ inv.v = inv.out4
    /\ inv.f = inv.out2

\* C9 (as claimed): after the iterations f, as a signed integer, is p or -p.
C9_FinalFIsModulus ==
    inv.pc = "done" => TwosEval(inv.f) \in {p, 0 - p}

\* C9 (amended): after the iterations f, as a signed integer, is 1 or -1
\* when the input is nonzero, and is p when the input is zero.
C9_FinalFIsUnit ==
    inv.pc = "done" =>
        IF to_canonical(inv.self) = 0
        THEN TwosEval(inv.f) = p
        ELSE TwosEval(inv.f) \in {1, 0 - 1}

\* An inversion of a nonzero input that ends with f = -1.
C9_Witness ==
    /\ inv.pc = "done"
    /\ inv.self # 0
    /\ TwosEval(inv.f) = 0 - 1

\* C10: the factor multiplied by precomp is the negation of the final v
\* when the top bit of the top word of the final f is 1 and the final v
\* when it is 0; both are computed, and a conditional select chooses.
C10_SignSelect ==
    inv.pc = "done" =>
        LET top == (inv.f \div (2 ^ (XBits - 1))) % 2
        IN  /\ inv.s = top
            /\ inv.v_opp = (p - inv.v) % p
            /\ inv.vsel = (IF top = 1 THEN (p - inv.v) % p ELSE inv.v)
            /\ inv.ret = mul(inv.vsel, inv.precomp)
            /\ SubSeq(inv.ops, Len(inv.ops) - 3, Len(inv.ops) - 1)
                  = <<"neg", "conditional_select", "mul">>

\* The sign bit was set and the negation, which differs from v, was taken.
C10_Witness ==
    /\ inv.pc = "done"
    /\ (inv.f \div (2 ^ (XBits - 1))) % 2 = 1
    /\ inv.vsel = (p - inv.v) % p
    /\ inv.vsel # inv.v

====
